---- MODULE Spec2Model ----
(***************************************************************************)
(* A model of the concurrency toolkit of justenwalker/got:                 *)
(*   - package semaphore: a counting semaphore built on a buffered channel *)
(*   - package attempt:   WithRetry (retry loop) and WithTimeout (race of  *)
(*                        a worker goroutine against a derived context)    *)
(* Three specifications share the module, one per component: SemSpec,      *)
(* RetrySpec and TimeoutSpec.  Each leaves the other components' variables *)
(* at their initial (unused) values.                                       *)
(***************************************************************************)
EXTENDS Integers, Sequences, FiniteSets, TLC

\* ------------------------------------------------------------------ bounds
\* Number of goroutines that use one semaphore.
NProcs == 3
\* Largest size passed to semaphore.New.
MaxCap == 2
\* Largest MaximumAttempts, and the cap on attempts of an unlimited retry.
MaxAttempts == 3
\* Largest time.Duration: the model's stand-in for math.MaxInt64.
MaxDuration == 63
\* The random source draws the multiples of 1/RandDen in [0, 1).
RandDen == 4
\* Largest attempt number passed to a Delayer called on its own.
MaxAttemptArg == 6

\* ------------------------------------------------------- shared vocabulary
\* context.Context.Err(): nil while the context is live, then one of the two
\* context errors, for ever.
NoErr == "NoErr"
Canceled == "Canceled"
DeadlineExceeded == "DeadlineExceeded"
CtxErrs == {Canceled, DeadlineExceeded}
CtxStates == {NoErr} \cup CtxErrs

VARIABLES
    \* ---- semaphore (type Semaphore chan struct{})
    cap,        \* cap(s): the size given to New
    buf,        \* len(s): elements in the channel's buffer
    spc,        \* per goroutine: "none", "idle", "acquire", "release", "wait"
    sctx,       \* per goroutine: Err() of the context of its running Acquire
    sctx0,      \* per goroutine: Err() of that context when Acquire was called
    widx,       \* per goroutine: loop counter i of its running Wait
    held,       \* per goroutine: successful acquisitions not yet released
    sres,       \* per goroutine: result of its last Acquire / TryAcquire
    \* ---- WithRetry
    rs,         \* the RetryStrategy
    opFails,    \* the operation: fails this many times, then succeeds
    rctx,       \* Err() of the context given to WithRetry
    rctx0,      \* Err() of that context when WithRetry was called
    wctx,       \* Err() of that context when the last ticker was created
    rpc,        \* "idle", "entry", "fn", "wait", "done", "panic"
    attempt,    \* the local variable attempt
    outs,       \* outcomes of the invocations of fn so far, in order
    dcalls,     \* arguments of the calls of rs.Delayer so far, in order
    rret,       \* the (value, error) pair WithRetry returned
    \* ---- WithTimeout
    tparent,    \* Err() of the context given to WithTimeout
    tparent0,   \* Err() of that context when WithTimeout was called
    timeout,    \* the timeout argument (its sign is what matters)
    tctx,       \* Err() of the derived context
    tpc,        \* caller: "idle", "entry", "select", "parked", "done"
    wpc,        \* worker goroutine: "none", "fn", "send", "done"
    wout,       \* the (value, error) pair fn returned to the worker
    resultCh,   \* buffer of resultCh (capacity 1)
    tret,       \* the (value, error) pair WithTimeout returned
    tcase,      \* the case the caller's select took: "none", "ctx", "result"
    thist,      \* the events of the race, in order: "timeout" and "parent"
                \* (the derived context finishes), "fnret", "send"
    \* ---- delay policies
    eb,         \* an ExponentialBackoff value
    dj,         \* the variables of the closure DecorrelatedJitter returned
    dlast       \* the last call of a Delayer: its arguments and its result

semVars == <<cap, buf, spc, sctx, sctx0, widx, held, sres>>
retryVars == <<rs, opFails, rctx, rctx0, wctx, rpc, attempt, outs, dcalls, rret>>
timeoutVars == <<tparent, tparent0, timeout, tctx, tpc, wpc, wout, resultCh, tret, tcase, thist>>
delayVars == <<eb, dj, dlast>>
vars == <<semVars, retryVars, timeoutVars, delayVars>>

\* ================================================================ semaphore
Procs == 1..NProcs

RECURSIVE SumOver(_, _)
SumOver(f, S) ==
    IF S = {} THEN 0
    ELSE LET x == CHOOSE y \in S : TRUE IN f[x] + SumOver(f, S \ {x})

\* Callers that have successfully acquired and not yet released.
Outstanding == SumOver(held, Procs)

\* A goroutine blocked in Release's receive on an empty channel.
BlockedReceivers == {q \in Procs : spc[q] = "release" /\ buf = 0}

\* CanSend with the buffer taken to hold one element more than its capacity.
CanSendOffByOne == buf <= cap \/ BlockedReceivers # {}

\* "s <- struct{}{}" can proceed: there is room in the buffer, or (for an
\* unbuffered or empty channel) a receiver is waiting to take the element.
CanSend == buf < cap \/ BlockedReceivers # {}

\* New(size): an empty channel of capacity size.
New(size) ==
    /\ cap = size /\ buf = 0
    /\ spc = [p \in Procs |-> "idle"]
    /\ sctx = [p \in Procs |-> NoErr]
    /\ sctx0 = [p \in Procs |-> NoErr]
    /\ widx = [p \in Procs |-> 0]
    /\ held = [p \in Procs |-> 0]
    /\ sres = [p \in Procs |-> "none"]

\* The effect of "s <- struct{}{}" by goroutine p, which leaves p at pc with
\* result r and changes p's count of acquisitions by d: the element goes
\* straight to a blocked receiver, whose Release then returns, or else into
\* the buffer.
Send(p, pc, r, d) ==
    /\ CanSend
    /\ IF BlockedReceivers # {}
       THEN \E q \in BlockedReceivers :
            /\ buf' = buf
            /\ spc' = [spc EXCEPT ![p] = pc, ![q] = "idle"]
            /\ held' = [held EXCEPT ![p] = @ + d, ![q] = IF @ > 0 THEN @ - 1 ELSE 0]
       ELSE /\ buf' = buf + 1
            /\ spc' = [spc EXCEPT ![p] = pc]
            /\ held' = [held EXCEPT ![p] = @ + d]
    /\ sres' = [sres EXCEPT ![p] = r]

\* Acquire(ctx) is called: the goroutine reaches the select.
AcquireCall(p, c) ==
    /\ spc[p] = "idle"
    /\ spc' = [spc EXCEPT ![p] = "acquire"]
    /\ sctx' = [sctx EXCEPT ![p] = c]
    /\ sctx0' = [sctx0 EXCEPT ![p] = c]
    /\ sres' = [sres EXCEPT ![p] = "none"]
    /\ UNCHANGED <<cap, buf, widx, held>>

\* The context of a running Acquire is cancelled / reaches its deadline.
AcquireCtxEnd(p, e) ==
    /\ spc[p] = "acquire" /\ sctx[p] = NoErr
    /\ sctx' = [sctx EXCEPT ![p] = e]
    /\ UNCHANGED <<cap, buf, spc, sctx0, widx, held, sres>>

\* select case "s <- struct{}{}": return nil.
AcquireSend(p) ==
    /\ spc[p] = "acquire"
    /\ Send(p, "idle", "nil", 1)
    /\ sctx' = [sctx EXCEPT ![p] = NoErr]
    /\ sctx0' = [sctx0 EXCEPT ![p] = NoErr]
    /\ UNCHANGED <<cap, widx>>

\* AcquireCtxDone leaving an element in the channel although it returns the
\* context's error.
AcquireCtxDoneHalfAcquired(p) ==
    /\ spc[p] = "acquire" /\ sctx[p] # NoErr
    /\ spc' = [spc EXCEPT ![p] = "idle"]
    /\ sres' = [sres EXCEPT ![p] = sctx[p]]
    /\ sctx' = [sctx EXCEPT ![p] = NoErr]
    /\ sctx0' = [sctx0 EXCEPT ![p] = NoErr]
    /\ buf' = buf + 1
    /\ UNCHANGED <<cap, widx, held>>

\* select case "<-ctx.Done()": return ctx.Err().
AcquireCtxDone(p) ==
    /\ spc[p] = "acquire" /\ sctx[p] # NoErr
    /\ spc' = [spc EXCEPT ![p] = "idle"]
    /\ sres' = [sres EXCEPT ![p] = sctx[p]]
    /\ sctx' = [sctx EXCEPT ![p] = NoErr]
    /\ sctx0' = [sctx0 EXCEPT ![p] = NoErr]
    /\ UNCHANGED <<cap, buf, widx, held>>

\* TryAcquire, case "s <- struct{}{}": return true.
TryAcquireOk(p) ==
    /\ spc[p] = "idle"
    /\ Send(p, "idle", "true", 1)
    /\ UNCHANGED <<cap, sctx, sctx0, widx>>

\* TryAcquireFail taking the default case whether or not the send is ready.
TryAcquireFailSpurious(p) ==
    /\ spc[p] = "idle"
    /\ sres' = [sres EXCEPT ![p] = "false"]
    /\ UNCHANGED <<cap, buf, spc, sctx, sctx0, widx, held>>

\* TryAcquire, default case: return false.
TryAcquireFail(p) ==
    /\ spc[p] = "idle"
    /\ ~CanSend
    /\ sres' = [sres EXCEPT ![p] = "false"]
    /\ UNCHANGED <<cap, buf, spc, sctx, sctx0, widx, held>>

\* Release is called by a goroutine that holds an acquisition (the documented
\* discipline: "MUST be called after a successful call to Acquire or TryAcquire").
ReleaseCall(p) ==
    /\ spc[p] = "idle" /\ held[p] > 0
    /\ spc' = [spc EXCEPT ![p] = "release"]
    /\ sres' = [sres EXCEPT ![p] = "none"]
    /\ UNCHANGED <<cap, buf, sctx, sctx0, widx, held>>

\* Release is called while no acquisition is outstanding: the misuse the
\* comment of Release warns of, as in the test "Release before acquire".
ReleaseCallUnmatched(p) ==
    /\ spc[p] = "idle" /\ Outstanding = 0
    /\ spc' = [spc EXCEPT ![p] = "release"]
    /\ sres' = [sres EXCEPT ![p] = "none"]
    /\ UNCHANGED <<cap, buf, sctx, sctx0, widx, held>>

\* ReleaseRecv as a receive that does not wait for an element.
ReleaseRecvNonBlocking(p) ==
    /\ spc[p] = "release"
    /\ buf' = IF buf > 0 THEN buf - 1 ELSE 0
    /\ spc' = [spc EXCEPT ![p] = "idle"]
    /\ held' = [held EXCEPT ![p] = IF @ > 0 THEN @ - 1 ELSE 0]
    /\ UNCHANGED <<cap, sctx, sctx0, widx, sres>>

\* ReleaseRecv returning without having taken an element out of the channel.
ReleaseRecvNoFree(p) ==
    /\ spc[p] = "release" /\ buf > 0
    /\ spc' = [spc EXCEPT ![p] = "idle"]
    /\ held' = [held EXCEPT ![p] = IF @ > 0 THEN @ - 1 ELSE 0]
    /\ UNCHANGED <<cap, buf, sctx, sctx0, widx, sres>>

\* "<-s" takes an element from the buffer: Release returns.
ReleaseRecv(p) ==
    /\ spc[p] = "release" /\ buf > 0
    /\ buf' = buf - 1
    /\ spc' = [spc EXCEPT ![p] = "idle"]
    /\ held' = [held EXCEPT ![p] = IF @ > 0 THEN @ - 1 ELSE 0]
    /\ UNCHANGED <<cap, sctx, sctx0, widx, sres>>

\* Wait is called: i := 0.
WaitCall(p) ==
    /\ spc[p] = "idle"
    /\ spc' = [spc EXCEPT ![p] = "wait"]
    /\ widx' = [widx EXCEPT ![p] = 0]
    /\ sres' = [sres EXCEPT ![p] = "none"]
    /\ UNCHANGED <<cap, buf, sctx, sctx0, held>>

\* WaitSend for a loop that counts an iteration without sending.
WaitSendCountOnly(p) ==
    /\ spc[p] = "wait" /\ widx[p] < cap
    /\ widx' = [widx EXCEPT ![p] = @ + 1]
    /\ UNCHANGED <<cap, buf, spc, sctx, sctx0, held, sres>>

\* One iteration of Wait's loop: i < cap(s), "s <- struct{}{}", i++.
WaitSend(p) ==
    /\ spc[p] = "wait" /\ widx[p] < cap
    /\ Send(p, "wait", "none", 0)
    /\ widx' = [widx EXCEPT ![p] = @ + 1]
    /\ UNCHANGED <<cap, sctx, sctx0>>

\* The context of the goroutine that called Wait ends.  Wait() takes no
\* context: nothing in it observes the event.
WaitCallerCtxEnd(p, e) ==
    /\ spc[p] = "wait" /\ sctx[p] = NoErr
    /\ sctx' = [sctx EXCEPT ![p] = e]
    /\ UNCHANGED <<cap, buf, spc, sctx0, widx, held, sres>>

\* WaitReturn for a loop that goes on for one iteration more than cap(s).
WaitReturnOneMore(p) ==
    /\ spc[p] = "wait" /\ widx[p] > cap
    /\ spc' = [spc EXCEPT ![p] = "idle"]
    /\ widx' = [widx EXCEPT ![p] = 0]
    /\ UNCHANGED <<cap, buf, sctx, sctx0, held, sres>>

\* WaitReturn for a loop that stops one iteration short of cap(s).
WaitReturnEarly(p) ==
    /\ spc[p] = "wait" /\ widx[p] >= cap - 1
    /\ spc' = [spc EXCEPT ![p] = "idle"]
    /\ widx' = [widx EXCEPT ![p] = 0]
    /\ UNCHANGED <<cap, buf, sctx, sctx0, held, sres>>

\* Wait's loop ends: i = cap(s), Wait returns.
WaitReturn(p) ==
    /\ spc[p] = "wait" /\ widx[p] >= cap
    /\ spc' = [spc EXCEPT ![p] = "idle"]
    /\ widx' = [widx EXCEPT ![p] = 0]
    /\ UNCHANGED <<cap, buf, sctx, sctx0, held, sres>>

\* =========================================================== package attempt
\* The type T is modelled by two values; 0 is its zero value.
Values == {0, 1}
zero == 0

\* error values are records; nil is one of them.
Err(t) == [type |-> t]
Nil == Err("nil")
\* The failures an operation can return.
OpErrors == {Err("e1"), Err("e2")}

\* A (value, error) pair.
Pair(v, e) == [value |-> v, err |-> e]
\* The value of rret / tret / wout before the function has returned.
NotReturned == Pair(zero, Err("not returned"))

\* &RetryExhaustedError{Attempt: a, Err: e}
RetryExhaustedError(a, e) == [type |-> "RetryExhaustedError", Attempt |-> a, Err |-> e]
\* (*RetryExhaustedError).Unwrap
Unwrap(e) == e.Err

\* A nil function value: a function with no domain.
NilFunc == <<>>
\* RetryAlways / RetryNever as predicates over the failures.
RetryAlways == [e \in OpErrors |-> TRUE]
RetryNever == [e \in OpErrors |-> FALSE]
\* A non-nil Delayer; what it returns is chosen when it is called.
DelayerFunc == <<"Delayer">>
\* time.Duration values a Delayer can return: negative, zero, positive.
Delays == {-1, 0, 1}

\* The operation that fails on every invocation.
Forever == -1
RetryStrategies ==
    [MaximumAttempts : 0..MaxAttempts,
     ShouldRetry : {NilFunc} \cup [OpErrors -> BOOLEAN],
     Delayer : {NilFunc, DelayerFunc}]

\* What the n-th invocation of the operation can return: a failure for the
\* first opFails invocations, a success afterwards.
OpOutcomes(n) ==
    IF opFails = Forever \/ n <= opFails
    THEN {Pair(v, e) : v \in Values, e \in OpErrors}
    ELSE {Pair(v, Nil) : v \in Values}

\* ---------------------------------------------------------------- WithRetry
\* WithRetry has not been called.
RetryIdle ==
    /\ rs = [MaximumAttempts |-> 0, ShouldRetry |-> NilFunc, Delayer |-> NilFunc]
    /\ opFails = 0 /\ rctx = NoErr /\ rctx0 = NoErr /\ wctx = NoErr
    /\ rpc = "idle" /\ attempt = 0
    /\ outs = <<>> /\ dcalls = <<>> /\ rret = NotReturned

\* WithRetry(ctx, rs, fn) is called, for every strategy, operation and context.
RetryInit ==
    /\ rs \in RetryStrategies
    /\ opFails \in {Forever} \cup 0..(MaxAttempts - 1)
    /\ rctx \in CtxStates /\ rctx0 = rctx /\ wctx = NoErr
    /\ rpc = "entry" /\ attempt = 0
    /\ outs = <<>> /\ dcalls = <<>> /\ rret = NotReturned

\* "return v, e"
RetryReturn(v, e) ==
    /\ rpc' = "done"
    /\ rret' = Pair(v, e)

\* NextAttempt with the attempt after the next one started as well.
NextAttemptTwice ==
    /\ attempt < MaxAttempts
    /\ attempt' = attempt + 2
    /\ rpc' = "fn"

\* "attempt++" and the call of fn(ctx) at the top of the loop.  An unlimited
\* retry is cut off after MaxAttempts attempts.
NextAttempt ==
    /\ attempt < MaxAttempts
    /\ attempt' = attempt + 1
    /\ rpc' = "fn"

\* rs.ShouldRetry == nil: "return fn(ctx)", fn is called.
RetryEnterNil ==
    /\ rpc = "entry" /\ rs.ShouldRetry = NilFunc
    /\ rpc' = "fn"
    /\ UNCHANGED <<rs, opFails, rctx, rctx0, wctx, attempt, outs, dcalls, rret>>

\* The first select: the context is already finished.
RetryEnterCtxDone ==
    /\ rpc = "entry" /\ rs.ShouldRetry # NilFunc
    /\ rctx # NoErr
    /\ RetryReturn(zero, Err(rctx))
    /\ UNCHANGED <<rs, opFails, rctx, rctx0, wctx, attempt, outs, dcalls>>

\* RetryEnterLoop without the check of the context before the first attempt.
RetryEnterLoopUnchecked ==
    /\ rpc = "entry" /\ rs.ShouldRetry # NilFunc
    /\ NextAttempt
    /\ UNCHANGED <<rs, opFails, rctx, rctx0, wctx, outs, dcalls, rret>>

\* The first select takes its default case: the loop starts.
RetryEnterLoop ==
    /\ rpc = "entry" /\ rs.ShouldRetry # NilFunc
    /\ rctx = NoErr
    /\ NextAttempt
    /\ UNCHANGED <<rs, opFails, rctx, rctx0, wctx, outs, dcalls, rret>>

\* The context ends while WithRetry is running.
RetryCtxEnd(e) ==
    /\ rpc \in {"fn", "wait"} /\ rctx = NoErr
    /\ rctx' = e
    /\ UNCHANGED <<rs, opFails, rctx0, wctx, rpc, attempt, outs, dcalls, rret>>

\* FnReturnNil returning the zero value with a failure, as the loop does.
FnReturnNilZeroed(o) ==
    /\ rpc = "fn" /\ rs.ShouldRetry = NilFunc
    /\ outs' = Append(outs, o)
    /\ RetryReturn(IF o.err = Nil THEN o.value ELSE zero, o.err)
    /\ UNCHANGED <<rs, opFails, rctx, rctx0, wctx, attempt, dcalls>>

\* rs.ShouldRetry == nil: fn returns and WithRetry returns its pair.
FnReturnNil(o) ==
    /\ rpc = "fn" /\ rs.ShouldRetry = NilFunc
    /\ outs' = Append(outs, o)
    /\ RetryReturn(o.value, o.err)
    /\ UNCHANGED <<rs, opFails, rctx, rctx0, wctx, attempt, dcalls>>

\* fn returns without error: "return t, nil".
FnSuccess(o) ==
    /\ rpc = "fn" /\ rs.ShouldRetry # NilFunc
    /\ o.err = Nil
    /\ outs' = Append(outs, o)
    /\ RetryReturn(o.value, Nil)
    /\ UNCHANGED <<rs, opFails, rctx, rctx0, wctx, attempt, dcalls>>

\* The attempt limit is reached.
LimitReached == rs.MaximumAttempts # 0 /\ attempt >= rs.MaximumAttempts

\* FnDeclined with the attempt limit tested before the predicate.
FnDeclinedLimitFirst(o) ==
    /\ rpc = "fn" /\ rs.ShouldRetry # NilFunc
    /\ o.err # Nil /\ ~rs.ShouldRetry[o.err]
    /\ outs' = Append(outs, o)
    /\ IF LimitReached
       THEN RetryReturn(zero, RetryExhaustedError(attempt, o.err))
       ELSE RetryReturn(zero, o.err)
    /\ UNCHANGED <<rs, opFails, rctx, rctx0, wctx, attempt, dcalls>>

\* fn fails and rs.ShouldRetry(err) is false: "return zero, err".
FnDeclined(o) ==
    /\ rpc = "fn" /\ rs.ShouldRetry # NilFunc
    /\ o.err # Nil /\ ~rs.ShouldRetry[o.err]
    /\ outs' = Append(outs, o)
    /\ RetryReturn(zero, o.err)
    /\ UNCHANGED <<rs, opFails, rctx, rctx0, wctx, attempt, dcalls>>

\* fn fails, the failure is retryable and the limit is reached:
\* "return zero, &RetryExhaustedError{...}".
FnExhausted(o) ==
    /\ rpc = "fn" /\ rs.ShouldRetry # NilFunc
    /\ o.err # Nil /\ rs.ShouldRetry[o.err]
    /\ LimitReached
    /\ outs' = Append(outs, o)
    /\ RetryReturn(zero, RetryExhaustedError(attempt, o.err))
    /\ UNCHANGED <<rs, opFails, rctx, rctx0, wctx, attempt, dcalls>>

\* FnRetry with the Delayer given the 0-based number of the attempt.
FnRetryZeroBased(o, d) ==
    /\ rpc = "fn" /\ rs.ShouldRetry # NilFunc
    /\ o.err # Nil /\ rs.ShouldRetry[o.err]
    /\ ~LimitReached
    /\ IF rs.Delayer = NilFunc
       THEN d = 0 /\ dcalls' = dcalls
       ELSE d \in Delays /\ dcalls' = Append(dcalls, attempt - 1)
    /\ outs' = Append(outs, o)
    /\ UNCHANGED <<rs, opFails, rctx, rctx0>>

\* fn fails and is going to be retried: the guard and the bookkeeping shared
\* by the branches on the delay d, which is 0 for a nil Delayer and is
\* rs.Delayer(attempt) otherwise.
FnRetry(o, d) ==
    /\ rpc = "fn" /\ rs.ShouldRetry # NilFunc
    /\ o.err # Nil /\ rs.ShouldRetry[o.err]
    /\ ~LimitReached
    /\ IF rs.Delayer = NilFunc
       THEN d = 0 /\ dcalls' = dcalls
       ELSE d \in Delays /\ dcalls' = Append(dcalls, attempt)
    /\ outs' = Append(outs, o)
    /\ UNCHANGED <<rs, opFails, rctx, rctx0>>

\* delay == 0 and the context is finished: "return zero, ctx.Err()".
FnRetryCtxDone(o) ==
    /\ FnRetry(o, 0)
    /\ rctx # NoErr
    /\ RetryReturn(zero, Err(rctx))
    /\ UNCHANGED <<attempt, wctx>>

\* delay == 0 and the context is live: "continue".
FnRetryNow(o) ==
    /\ FnRetry(o, 0)
    /\ rctx = NoErr
    /\ NextAttempt
    /\ UNCHANGED <<rret, wctx>>

\* delay > 0: time.NewTicker(delay), then the select on the ticker and ctx.
FnRetryWait(o) ==
    /\ \E d \in Delays : d > 0 /\ FnRetry(o, d)
    /\ rpc' = "wait"
    /\ wctx' = rctx
    /\ UNCHANGED <<attempt, rret>>

\* delay < 0: time.NewTicker panics ("non-positive interval for NewTicker").
FnRetryPanic(o) ==
    /\ \E d \in Delays : d < 0 /\ FnRetry(o, d)
    /\ rpc' = "panic"
    /\ UNCHANGED <<attempt, rret, wctx>>

\* select case "<-ticker.C": next iteration of the loop.
TickerFire ==
    /\ rpc = "wait"
    /\ NextAttempt
    /\ UNCHANGED <<rs, opFails, rctx, rctx0, wctx, outs, dcalls, rret>>

\* select case "<-ctx.Done()": "ticker.Stop(); return zero, ctx.Err()".
WaitCtxDone ==
    /\ rpc = "wait" /\ rctx # NoErr
    /\ RetryReturn(zero, Err(rctx))
    /\ UNCHANGED <<rs, opFails, rctx, rctx0, wctx, attempt, outs, dcalls>>

\* WithRetry is over: it returned or it panicked.
RetryOver == rpc \in {"done", "panic"}

\* -------------------------------------------------------------- WithTimeout
\* The timeout arguments: non-positive (already elapsed) and positive.
Timeouts == {0, 1}

\* WithTimeout has not been called.
TimeoutIdle ==
    /\ tparent = NoErr /\ tparent0 = NoErr /\ timeout = 0 /\ tctx = NoErr
    /\ tpc = "idle" /\ wpc = "none" /\ wout = NotReturned
    /\ resultCh = <<>> /\ tret = NotReturned /\ tcase = "none" /\ thist = <<>>

\* WithTimeout(ctx, timeout, fn) is called, for every context and timeout.
TimeoutInit ==
    /\ tparent \in CtxStates /\ tparent0 = tparent
    /\ timeout \in Timeouts
    /\ tctx = NoErr
    /\ tpc = "entry" /\ wpc = "none" /\ wout = NotReturned
    /\ resultCh = <<>> /\ tret = NotReturned /\ tcase = "none" /\ thist = <<>>

\* Err() of the context returned by context.WithTimeout(ctx, timeout): the
\* parent's error if the parent is finished, else the deadline if it has
\* passed already, else nil.
DerivedErr ==
    IF tparent # NoErr THEN tparent
    ELSE IF timeout <= 0 THEN DeadlineExceeded
    ELSE NoErr

\* FromResult handing the received pair on untouched.
FromResultAsIs(r) == r

\* What WithTimeout returns for the result r received from resultCh.
FromResult(r) ==
    IF r.err # Nil THEN Pair(zero, r.err) ELSE Pair(r.value, Nil)

\* "return" of WithTimeout from select case k with the pair r; the deferred
\* cancel() then cancels the derived context, whose error is c before that.
TimeoutReturn(k, r, c) ==
    /\ tpc' = "done"
    /\ tcase' = k
    /\ tret' = r
    /\ tctx' = IF c = NoErr THEN Canceled ELSE c

\* The derived context finishes with error e (event ev): a caller parked in
\* the select wakes up on "<-ctx.Done()" and returns zero, ctx.Err().
DerivedDone(e, ev) ==
    /\ thist' = Append(thist, ev)
    /\ IF tpc = "parked"
       THEN TimeoutReturn("ctx", Pair(zero, Err(e)), e)
       ELSE tctx' = e /\ UNCHANGED <<tpc, tret, tcase>>

\* Lines 123-129: the derived context and the result channel are made and
\* the worker goroutine is started.
TimeoutEnter ==
    /\ tpc = "entry"
    /\ tctx' = DerivedErr
    /\ thist' = IF tparent # NoErr THEN <<"parent">>
                ELSE IF timeout <= 0 THEN <<"timeout">>
                ELSE <<>>
    /\ tpc' = "select"
    /\ wpc' = "fn"
    /\ UNCHANGED <<tparent, tparent0, timeout, wout, resultCh, tret, tcase>>

\* The timer of the derived context fires.
TimerFire ==
    /\ tpc \in {"select", "parked"}
    /\ tctx = NoErr /\ timeout > 0
    /\ DerivedDone(DeadlineExceeded, "timeout")
    /\ UNCHANGED <<tparent, tparent0, timeout, wpc, wout, resultCh>>

\* The parent context is cancelled or reaches its own deadline; a live
\* derived context finishes with the same error.
ParentEnd(e) ==
    /\ tpc \in {"select", "parked"}
    /\ tparent = NoErr
    /\ tparent' = e
    /\ IF tctx = NoErr
       THEN DerivedDone(e, "parent")
       ELSE UNCHANGED <<tctx, tpc, tret, tcase, thist>>
    /\ UNCHANGED <<tparent0, timeout, wpc, wout, resultCh>>

\* Worker: "t, err := fn(ctx)" returns.
WorkerFnReturn(o) ==
    /\ wpc = "fn"
    /\ wpc' = "send"
    /\ wout' = o
    /\ thist' = Append(thist, "fnret")
    /\ UNCHANGED <<tparent, tparent0, timeout, tctx, tpc, resultCh, tret, tcase>>

\* WorkerSend on a result channel made without a buffer: the delivery needs
\* a caller that is waiting in the select.
WorkerSendUnbuffered ==
    /\ wpc = "send"
    /\ tpc = "parked"
    /\ wpc' = "done"
    /\ thist' = Append(thist, "send")
    /\ TimeoutReturn("result", FromResult(wout), tctx) /\ UNCHANGED resultCh
    /\ UNCHANGED <<tparent, tparent0, timeout, wout>>

\* Worker: "resultCh <- result[T]{...}".  A caller parked in the select
\* receives the result directly and returns; otherwise it is buffered.
WorkerSend ==
    /\ wpc = "send"
    /\ Len(resultCh) < 1 \/ tpc = "parked"
    /\ wpc' = "done"
    /\ thist' = Append(thist, "send")
    /\ IF tpc = "parked"
       THEN TimeoutReturn("result", FromResult(wout), tctx) /\ UNCHANGED resultCh
       ELSE resultCh' = Append(resultCh, wout) /\ UNCHANGED <<tctx, tpc, tret, tcase>>
    /\ UNCHANGED <<tparent, tparent0, timeout, wout>>

\* SelectCtxDone for a caller that waits for the result alone: the case
\* "<-ctx.Done()" is never taken.
SelectCtxDoneNever ==
    /\ tpc = "select"
    /\ FALSE
    /\ UNCHANGED timeoutVars

\* Caller's select, case "<-ctx.Done()": "return zero, ctx.Err()".
SelectCtxDone ==
    /\ tpc = "select"
    /\ tctx # NoErr
    /\ TimeoutReturn("ctx", Pair(zero, Err(tctx)), tctx)
    /\ UNCHANGED <<tparent, tparent0, timeout, wpc, wout, resultCh, thist>>

\* Caller's select, case "r := <-resultCh".
SelectResult ==
    /\ tpc = "select"
    /\ resultCh # <<>>
    /\ TimeoutReturn("result", FromResult(Head(resultCh)), tctx)
    /\ resultCh' = Tail(resultCh)
    /\ UNCHANGED <<tparent, tparent0, timeout, wpc, wout, thist>>

\* Caller's select finds no case ready: the goroutine parks on both channels.
SelectPark ==
    /\ tpc = "select"
    /\ tctx = NoErr /\ resultCh = <<>>
    /\ tpc' = "parked"
    /\ UNCHANGED <<tparent, tparent0, timeout, tctx, wpc, wout, resultCh, tret, tcase, thist>>

\* ============================================================ delay policies
\* time.Duration is an int64 count of nanoseconds.  The model keeps its
\* two's-complement behaviour at a reduced width: MinDuration..MaxDuration.
MinDuration == -MaxDuration - 1
Durations == MinDuration..MaxDuration

\* int64 addition and subtraction: the result wraps around.
Wrap(x) == ((x - MinDuration) % (2 * (MaxDuration + 1))) + MinDuration

\* A float64 is a fraction <<numerator, denominator>>, denominator positive.
Float(n, d) == <<n, d>>

\* float64 product.
Mul(f, g) == <<f[1] * g[1], f[2] * g[2]>>

\* math.Pow(f, n) for an integral n >= 1.
Pow(f, n) == <<f[1] ^ n, f[2] ^ n>>

\* The integral part of f: Go's conversion and "/" truncate toward zero.
Trunc(f) == IF f[1] >= 0 THEN f[1] \div f[2] ELSE -((-f[1]) \div f[2])

\* time.Duration(f), the values a build can give.  A float64 outside the range
\* of int64 converts to an implementation-dependent value: the smallest int64
\* on amd64, the nearest bound of the range on arm64.
ToDuration(f) ==
    LET t == Trunc(f)
    IN  IF t > MaxDuration THEN {MinDuration, MaxDuration}
        ELSE IF t < MinDuration THEN {MinDuration}
        ELSE {t}

\* Rand: the values rnd() returns, in [0.0, 1.0).
Rands == {Float(k, RandDen) : k \in 0..(RandDen - 1)}

DefaultBackoffCoefficient == Float(2, 1)

\* The ExponentialBackoff values: with and without the documented
\* preconditions (Coefficient > 0, InitialDelay < MaxDelay).
ExponentialBackoffs ==
    [InitialDelay : 0..3, MaxDelay : {0, 2, 10, MaxDuration},
     Coefficient : {Float(0, 1), Float(1, 2), Float(1, 1), Float(3, 2), Float(2, 1), Float(3, 1)}]

\* Delay with the result never compared with MaxDelay.
DelayUncapped(e, att) ==
    IF att = 0 THEN {0}
    ELSE LET c == IF e.Coefficient[1] = 0 THEN DefaultBackoffCoefficient ELSE e.Coefficient
         IN  ToDuration(Mul(Float(e.InitialDelay, 1), Pow(c, att)))

\* ExponentialBackoff.Delay(attempt): the values it can return.
Delay(e, att) ==
    IF att = 0 THEN {0}
    ELSE LET c == IF e.Coefficient[1] = 0 THEN DefaultBackoffCoefficient ELSE e.Coefficient
         IN  {IF dur > e.MaxDelay THEN e.MaxDelay ELSE dur :
                 dur \in ToDuration(Mul(Float(e.InitialDelay, 1), Pow(c, att)))}

\* randomDurationBetween with the draw added to the end of the interval.
randomDurationBetweenFromEnd(r, start, end) ==
    {Wrap(end + x) : x \in ToDuration(Mul(r, Float(Wrap(end - start), 1)))}

\* randomDurationBetween(rnd, start, end) for the draw r of rnd.
randomDurationBetween(r, start, end) ==
    {Wrap(start + x) : x \in ToDuration(Mul(r, Float(Wrap(end - start), 1)))}

\* Duration(dur): the Delayer that returns dur for every attempt.
Duration(dur) == [att \in 0..MaxAttemptArg |-> dur]

\* FullJitter(rnd, delayer)(attempt).
FullJitter(r, delayer, att) == randomDurationBetween(r, 0, delayer[att])

\* EqualJitter(rnd, delayer)(attempt).
EqualJitter(r, delayer, att) ==
    LET d == delayer[att]
    IN  {Wrap(Trunc(Float(d, 2)) + x) : x \in randomDurationBetween(r, 0, Trunc(Float(d, 2)))}

DefaultDecorrelatedScale == Float(3, 1)

\* DecorrelatedJitter(rnd, base, cap, scale): the variables its closure holds.
DecorrelatedJitter(base, cp, scale) ==
    [base |-> base, cap |-> cp, sleep |-> base,
     scale |-> IF scale[1] <= 0 THEN DefaultDecorrelatedScale ELSE scale]

\* The values the closure can assign to sleep in one call with draw r.
NextSleep(j, r) ==
    UNION {randomDurationBetween(r, j.base, e) : e \in ToDuration(Mul(Float(j.sleep, 1), j.scale))}

\* The closure's result for the sleep it has just stored.
Clamp(j, s) == IF s > j.cap THEN j.cap ELSE s

\* No Delayer has been called.
NoCall == [fn |-> "none", attempt |-> 0, r |-> Float(0, 1), d |-> 0, out |-> 0]

\* The record of one call of a Delayer.
Call(fn, att, r, d, out) == [fn |-> fn, attempt |-> att, r |-> r, d |-> d, out |-> out]

\* No delay policy exists.
DelayIdle ==
    /\ eb = [InitialDelay |-> 0, MaxDelay |-> 0, Coefficient |-> Float(0, 1)]
    /\ dj = DecorrelatedJitter(0, 0, Float(0, 1))
    /\ dlast = NoCall

\* e.Delay(att) is called and returns.
DelayCall(att) ==
    /\ \E out \in Delay(eb, att) : dlast' = Call("Delay", att, Float(0, 1), 0, out)
    /\ UNCHANGED <<eb, dj>>

\* FullJitter(rnd, Duration(d))(att) is called, rnd draws r.
FullJitterCall(r, d, att) ==
    /\ \E out \in FullJitter(r, Duration(d), att) : dlast' = Call("FullJitter", att, r, d, out)
    /\ UNCHANGED <<eb, dj>>

\* EqualJitter(rnd, Duration(d))(att) is called, rnd draws r.
EqualJitterCall(r, d, att) ==
    /\ \E out \in EqualJitter(r, Duration(d), att) : dlast' = Call("EqualJitter", att, r, d, out)
    /\ UNCHANGED <<eb, dj>>

\* The Delayer made by DecorrelatedJitter is called, rnd draws r.
DecorrelatedJitterCall(r) ==
    /\ \E s \in NextSleep(dj, r) :
          /\ dj' = [dj EXCEPT !.sleep = s]
          /\ dlast' = Call("DecorrelatedJitter", 0, r, 0, Clamp(dj, s))
    /\ UNCHANGED eb

\* ----------------------------------------------------------- specifications
\* No call of the semaphore is in progress and the channel does not exist.
SemIdle ==
    /\ cap = 0 /\ buf = 0
    /\ spc = [p \in Procs |-> "none"]
    /\ sctx = [p \in Procs |-> NoErr]
    /\ sctx0 = [p \in Procs |-> NoErr]
    /\ widx = [p \in Procs |-> 0]
    /\ held = [p \in Procs |-> 0]
    /\ sres = [p \in Procs |-> "none"]

\* The state after semaphore.New(size), for every size within the bound.
SemInit == (\E size \in 0..MaxCap : New(size)) /\ RetryIdle /\ TimeoutIdle /\ DelayIdle

SemNext ==
    \/ \E p \in Procs, c \in CtxStates : AcquireCall(p, c) /\ UNCHANGED <<retryVars, timeoutVars, delayVars>>
    \/ \E p \in Procs, e \in CtxErrs : AcquireCtxEnd(p, e) /\ UNCHANGED <<retryVars, timeoutVars, delayVars>>
    \/ \E p \in Procs : AcquireSend(p) /\ UNCHANGED <<retryVars, timeoutVars, delayVars>>
    \/ \E p \in Procs : AcquireCtxDone(p) /\ UNCHANGED <<retryVars, timeoutVars, delayVars>>
    \/ \E p \in Procs : TryAcquireOk(p) /\ UNCHANGED <<retryVars, timeoutVars, delayVars>>
    \/ \E p \in Procs : TryAcquireFail(p) /\ UNCHANGED <<retryVars, timeoutVars, delayVars>>
    \/ \E p \in Procs : ReleaseCall(p) /\ UNCHANGED <<retryVars, timeoutVars, delayVars>>
    \/ \E p \in Procs : ReleaseRecv(p) /\ UNCHANGED <<retryVars, timeoutVars, delayVars>>
    \/ \E p \in Procs : WaitCall(p) /\ UNCHANGED <<retryVars, timeoutVars, delayVars>>
    \/ \E p \in Procs : WaitSend(p) /\ UNCHANGED <<retryVars, timeoutVars, delayVars>>
    \/ \E p \in Procs : WaitReturn(p) /\ UNCHANGED <<retryVars, timeoutVars, delayVars>>

\* Goroutines using one semaphore, every Release after an acquisition.
SemSpec == SemInit /\ [][SemNext]_vars

SemMisuseNext ==
    \/ \E p \in Procs : AcquireCall(p, NoErr) /\ UNCHANGED <<retryVars, timeoutVars, delayVars>>
    \/ \E p \in Procs : AcquireSend(p) /\ UNCHANGED <<retryVars, timeoutVars, delayVars>>
    \/ \E p \in Procs : TryAcquireOk(p) /\ UNCHANGED <<retryVars, timeoutVars, delayVars>>
    \/ \E p \in Procs : TryAcquireFail(p) /\ UNCHANGED <<retryVars, timeoutVars, delayVars>>
    \/ \E p \in Procs : ReleaseCall(p) /\ UNCHANGED <<retryVars, timeoutVars, delayVars>>
    \/ \E p \in Procs : ReleaseCallUnmatched(p) /\ UNCHANGED <<retryVars, timeoutVars, delayVars>>
    \/ \E p \in Procs : ReleaseRecv(p) /\ UNCHANGED <<retryVars, timeoutVars, delayVars>>
    \/ \E p \in Procs : WaitCall(p) /\ UNCHANGED <<retryVars, timeoutVars, delayVars>>
    \/ \E p \in Procs : WaitSend(p) /\ UNCHANGED <<retryVars, timeoutVars, delayVars>>
    \/ \E p \in Procs : WaitReturn(p) /\ UNCHANGED <<retryVars, timeoutVars, delayVars>>

\* Goroutines using one semaphore with contexts that never end, Release also
\* called when nothing is outstanding.
SemMisuseSpec == SemInit /\ [][SemMisuseNext]_vars

\* A Wait is running, or one has run: slots are taken by its drain.
Draining == (\E q \in Procs : spc[q] = "wait") \/ buf > Outstanding

\* The use the package documents (ExampleSemaphore; "After the call to wait,
\* the semaphore should not be re-used"): goroutines acquire and release, then
\* one Wait drains the semaphore, and from its call on no acquisition is
\* started and no other Wait is called.
SemDrainNext ==
    \/ \E p \in Procs : ~Draining /\ AcquireCall(p, NoErr) /\ UNCHANGED <<retryVars, timeoutVars, delayVars>>
    \/ \E p \in Procs : AcquireSend(p) /\ UNCHANGED <<retryVars, timeoutVars, delayVars>>
    \/ \E p \in Procs : ~Draining /\ TryAcquireOk(p) /\ UNCHANGED <<retryVars, timeoutVars, delayVars>>
    \/ \E p \in Procs : ~Draining /\ TryAcquireFail(p) /\ UNCHANGED <<retryVars, timeoutVars, delayVars>>
    \/ \E p \in Procs : ReleaseCall(p) /\ UNCHANGED <<retryVars, timeoutVars, delayVars>>
    \/ \E p \in Procs : ReleaseRecv(p) /\ UNCHANGED <<retryVars, timeoutVars, delayVars>>
    \/ \E p \in Procs : ~Draining /\ WaitCall(p) /\ UNCHANGED <<retryVars, timeoutVars, delayVars>>
    \/ \E p \in Procs : WaitSend(p) /\ UNCHANGED <<retryVars, timeoutVars, delayVars>>
    \/ \E p \in Procs : WaitReturn(p) /\ UNCHANGED <<retryVars, timeoutVars, delayVars>>

\* The steps of Wait's loop, which its goroutine takes whenever it can.
WaitLoop(p) == (WaitSend(p) \/ WaitReturn(p)) /\ UNCHANGED <<retryVars, timeoutVars, delayVars>>

\* That use under the scheduling the runtime gives the goroutine in Wait.
\* Nothing makes a goroutine release what it holds.
SemDrainSpec ==
    /\ SemInit /\ [][SemDrainNext]_vars
    /\ \A p \in Procs : WF_vars(WaitLoop(p))

SemCancelNext ==
    \/ SemNext
    \/ \E p \in Procs, e \in CtxErrs : WaitCallerCtxEnd(p, e) /\ UNCHANGED <<retryVars, timeoutVars, delayVars>>

\* The steps in which Acquire's select takes a case.
AcquireSelect(p) == (AcquireSend(p) \/ AcquireCtxDone(p)) /\ UNCHANGED <<retryVars, timeoutVars, delayVars>>

\* SemSpec with the contexts of the callers of Wait, under the scheduling the
\* runtime gives a goroutine inside Acquire or Wait.  Nothing makes a
\* goroutine release what it holds.
SemCancelSpec ==
    /\ SemInit /\ [][SemCancelNext]_vars
    /\ \A p \in Procs : WF_vars(AcquireSelect(p)) /\ WF_vars(WaitLoop(p))

RetrySpecInit == SemIdle /\ RetryInit /\ TimeoutIdle /\ DelayIdle

\* The outcomes the invocation of fn in progress can have.
NextOutcomes == OpOutcomes(Len(outs) + 1)

RetryNext ==
    \/ RetryEnterNil /\ UNCHANGED <<semVars, timeoutVars, delayVars>>
    \/ RetryEnterCtxDone /\ UNCHANGED <<semVars, timeoutVars, delayVars>>
    \/ RetryEnterLoop /\ UNCHANGED <<semVars, timeoutVars, delayVars>>
    \/ \E e \in CtxErrs : RetryCtxEnd(e) /\ UNCHANGED <<semVars, timeoutVars, delayVars>>
    \/ \E o \in NextOutcomes : FnReturnNil(o) /\ UNCHANGED <<semVars, timeoutVars, delayVars>>
    \/ \E o \in NextOutcomes : FnSuccess(o) /\ UNCHANGED <<semVars, timeoutVars, delayVars>>
    \/ \E o \in NextOutcomes : FnDeclined(o) /\ UNCHANGED <<semVars, timeoutVars, delayVars>>
    \/ \E o \in NextOutcomes : FnExhausted(o) /\ UNCHANGED <<semVars, timeoutVars, delayVars>>
    \/ \E o \in NextOutcomes : FnRetryCtxDone(o) /\ UNCHANGED <<semVars, timeoutVars, delayVars>>
    \/ \E o \in NextOutcomes : FnRetryNow(o) /\ UNCHANGED <<semVars, timeoutVars, delayVars>>
    \/ \E o \in NextOutcomes : FnRetryWait(o) /\ UNCHANGED <<semVars, timeoutVars, delayVars>>
    \/ \E o \in NextOutcomes : FnRetryPanic(o) /\ UNCHANGED <<semVars, timeoutVars, delayVars>>
    \/ TickerFire /\ UNCHANGED <<semVars, timeoutVars, delayVars>>
    \/ WaitCtxDone /\ UNCHANGED <<semVars, timeoutVars, delayVars>>

\* One call of WithRetry.
RetrySpec == RetrySpecInit /\ [][RetryNext]_vars

TimeoutSpecInit == SemIdle /\ RetryIdle /\ TimeoutInit /\ DelayIdle

\* The pairs fn can return.
FnOutcomes == {Pair(v, e) : v \in Values, e \in {Nil} \cup OpErrors}

TimeoutNext ==
    \/ TimeoutEnter /\ UNCHANGED <<semVars, retryVars, delayVars>>
    \/ TimerFire /\ UNCHANGED <<semVars, retryVars, delayVars>>
    \/ \E e \in CtxErrs : ParentEnd(e) /\ UNCHANGED <<semVars, retryVars, delayVars>>
    \/ \E o \in FnOutcomes : WorkerFnReturn(o) /\ UNCHANGED <<semVars, retryVars, delayVars>>
    \/ WorkerSend /\ UNCHANGED <<semVars, retryVars, delayVars>>
    \/ SelectCtxDone /\ UNCHANGED <<semVars, retryVars, delayVars>>
    \/ SelectResult /\ UNCHANGED <<semVars, retryVars, delayVars>>
    \/ SelectPark /\ UNCHANGED <<semVars, retryVars, delayVars>>

\* One call of WithTimeout.
TimeoutSpec == TimeoutSpecInit /\ [][TimeoutNext]_vars

\* The steps of the goroutine that called WithTimeout.
TimeoutCaller ==
    /\ TimeoutEnter \/ SelectCtxDone \/ SelectResult \/ SelectPark
    /\ UNCHANGED <<semVars, retryVars, delayVars>>

\* One call of WithTimeout under the scheduling the runtime gives: the caller
\* and the worker's send run when they can, and the timer of a live derived
\* context fires.  Nothing makes the operation return or the parent end.
TimeoutLiveSpec ==
    /\ TimeoutSpecInit /\ [][TimeoutNext]_vars
    /\ WF_vars(TimeoutCaller)
    /\ WF_vars(WorkerSend /\ UNCHANGED <<semVars, retryVars, delayVars>>)
    /\ WF_vars(TimerFire /\ UNCHANGED <<semVars, retryVars, delayVars>>)

BackoffInit == SemIdle /\ RetryIdle /\ TimeoutIdle /\ eb \in ExponentialBackoffs /\ dj = DecorrelatedJitter(0, 0, Float(0, 1)) /\ dlast = NoCall

BackoffNext ==
    \/ \E att \in 0..MaxAttemptArg : DelayCall(att) /\ UNCHANGED <<semVars, retryVars, timeoutVars>>

\* Calls of Delay on one ExponentialBackoff value.
BackoffSpec == BackoffInit /\ [][BackoffNext]_vars

JitterInit == SemIdle /\ RetryIdle /\ TimeoutIdle /\ DelayIdle

JitterNext ==
    \/ \E r \in Rands, d \in Durations, att \in 0..MaxAttemptArg : dlast = NoCall /\ FullJitterCall(r, d, att) /\ UNCHANGED <<semVars, retryVars, timeoutVars>>
    \/ \E r \in Rands, d \in Durations, att \in 0..MaxAttemptArg : dlast = NoCall /\ EqualJitterCall(r, d, att) /\ UNCHANGED <<semVars, retryVars, timeoutVars>>

\* One call of a Delayer that FullJitter or EqualJitter makes from a constant
\* one: the Delayers hold no state, a call does not depend on the calls before.
JitterSpec == JitterInit /\ [][JitterNext]_vars

\* The arguments given to DecorrelatedJitter: with and without the documented
\* preconditions (scale > 0, base < cap).
DecorrelatedInit ==
    /\ SemIdle /\ RetryIdle /\ TimeoutIdle
    /\ eb = [InitialDelay |-> 0, MaxDelay |-> 0, Coefficient |-> Float(0, 1)]
    /\ \E base \in {0, 1, 4}, cp \in {1, 2, 5, 8},
          scale \in {Float(-1, 1), Float(0, 1), Float(1, 2), Float(1, 1), Float(2, 1), Float(3, 1)} :
          dj = DecorrelatedJitter(base, cp, scale)
    /\ dlast = NoCall

DecorrelatedNext ==
    \/ \E r \in Rands : DecorrelatedJitterCall(r) /\ UNCHANGED <<semVars, retryVars, timeoutVars>>

\* Calls, one after the other, of one Delayer made by DecorrelatedJitter.
DecorrelatedSpec == DecorrelatedInit /\ [][DecorrelatedNext]_vars

\* ==================================================================== claims

\* ------------------------------------------------------------------------ C1
\* C1: with every Release following a successful acquisition by the same
\* goroutine, the number of successful acquisitions not yet released is
\* between 0 and the capacity, in every reachable state.
C1_CapacityInvariant ==
    /\ \A p \in Procs : held[p] >= 0
    /\ Outstanding >= 0
    /\ Outstanding <= cap

\* The semaphore is full of acquisitions held by two goroutines, while a
\* third one has been refused by TryAcquire and is now blocked in Acquire.
C1_Witness ==
    /\ cap = 2 /\ Outstanding = cap
    /\ \E p, q, r \in Procs :
        /\ p # q /\ held[p] = 1 /\ held[q] = 1
        /\ held[r] = 0 /\ spc[r] = "acquire"

\* ------------------------------------------------------------------------ C2
\* The retry predicate accepts every failure.
AcceptsAll == rs.ShouldRetry # NilFunc /\ \A e \in OpErrors : rs.ShouldRetry[e]

\* C2: with MaximumAttempts = k > 0, a predicate that accepts every failure, a
\* context that is never cancelled and an operation that always fails,
\* WithRetry ends by returning, after exactly k invocations, a
\* RetryExhaustedError with Attempt = k whose Err is the k-th failure.
C2_ExhaustedAfterK ==
    (/\ RetryOver
     /\ rs.MaximumAttempts > 0
     /\ AcceptsAll
     /\ rctx = NoErr
     /\ opFails = Forever)
    => (/\ rpc = "done"
        /\ Len(outs) = rs.MaximumAttempts
        /\ rret.value = zero
        /\ rret.err = RetryExhaustedError(rs.MaximumAttempts, outs[rs.MaximumAttempts].err)
        /\ Unwrap(rret.err) = outs[rs.MaximumAttempts].err)

\* ------------------------------------------------------------------------ C3
\* C3: with a predicate that accepts every failure and a context that is
\* never cancelled, an operation that fails m times and then succeeds is
\* invoked exactly m+1 times and WithRetry returns its success value and nil,
\* whenever MaximumAttempts = 0 or MaximumAttempts > m.
C3_SuccessAfterM ==
    (/\ RetryOver
     /\ AcceptsAll
     /\ rctx = NoErr
     /\ opFails # Forever
     /\ (rs.MaximumAttempts = 0 \/ rs.MaximumAttempts > opFails))
    => (/\ rpc = "done"
        /\ Len(outs) = opFails + 1
        /\ rret = Pair(outs[opFails + 1].value, Nil))

\* ------------------------------------------------------------------------ C4
\* The i-th invocation failed and the predicate declined to retry it.
Declined(i) == outs[i].err # Nil /\ ~rs.ShouldRetry[outs[i].err]

\* C4: whenever the predicate returns false for the failure of an attempt,
\* that attempt is the last one and WithRetry returns exactly that failure,
\* unwrapped, with the zero value - also on the attempt numbered
\* MaximumAttempts.
C4_DeclinedReturnsRaw ==
    rs.ShouldRetry # NilFunc =>
        \A i \in 1..Len(outs) :
            Declined(i) =>
                /\ i = Len(outs) /\ i = attempt
                /\ rpc = "done"
                /\ rret = Pair(zero, outs[i].err)

\* The predicate declined the failure of the attempt numbered MaximumAttempts,
\* after having accepted an earlier one.
C4_Witness ==
    /\ rs.ShouldRetry # NilFunc
    /\ rs.MaximumAttempts >= 2 /\ Len(outs) = rs.MaximumAttempts
    /\ Declined(Len(outs))
    /\ rpc = "done"

\* ------------------------------------------------------------------------ C5
\* fn has been invoked, or is being invoked.
Invoked == Len(outs) > 0 \/ rpc = "fn"

\* C5 as stated: if the context is finished before WithRetry starts then,
\* for every strategy, the operation is never invoked and WithRetry returns
\* the context's error.
C5_CancelledNeverInvoked ==
    rctx0 # NoErr =>
        /\ ~Invoked
        /\ rpc \in {"entry", "done"}
        /\ rpc = "done" => rret = Pair(zero, Err(rctx0))

\* C5 amended: the same for every strategy that has a ShouldRetry predicate.
C5_CancelledNeverInvokedWithPredicate ==
    (rctx0 # NoErr /\ rs.ShouldRetry # NilFunc) =>
        /\ ~Invoked
        /\ rpc \in {"entry", "done"}
        /\ rpc = "done" => rret = Pair(zero, Err(rctx0))

\* WithRetry has returned on a context that was cancelled before the call,
\* under a strategy with a predicate.
C5_Witness ==
    /\ rctx0 = Canceled /\ rs.ShouldRetry # NilFunc
    /\ rpc = "done" /\ rret = Pair(zero, Err(Canceled))

\* ------------------------------------------------------------------------ C6
\* C6: with no ShouldRetry predicate the operation is invoked exactly once,
\* its pair is returned unchanged and the Delayer is never called, whatever
\* MaximumAttempts and Delayer are; with a predicate that always returns
\* false a failure is returned with the zero value instead.
C6_NoPredicateRunsOnce ==
    /\ rs.ShouldRetry = NilFunc =>
        /\ Len(outs) <= 1 /\ dcalls = <<>> /\ attempt = 0
        /\ rpc # "panic" /\ rpc # "wait"
        /\ rpc = "done" => (Len(outs) = 1 /\ rret = outs[1])
    /\ (rs.ShouldRetry = RetryNever /\ rpc = "done" /\ Len(outs) > 0 /\ outs[1].err # Nil) =>
        (Len(outs) = 1 /\ rret = Pair(zero, outs[1].err))

\* Without a predicate, WithRetry returned a non-zero value together with a
\* failure, under a strategy with an attempt limit and a Delayer.
C6_Witness ==
    /\ rs.ShouldRetry = NilFunc /\ rs.MaximumAttempts > 1 /\ rs.Delayer # NilFunc
    /\ rpc = "done" /\ rret.value # zero /\ rret.err \in OpErrors

\* ------------------------------------------------------------------------ C7
\* Event a is in thist, and event b is not or comes later.
Before(a, b) ==
    \E i \in 1..Len(thist) :
        /\ thist[i] = a
        /\ \A j \in 1..Len(thist) : thist[j] = b => i < j

\* C7: if the operation has not completed when the timeout elapses,
\* WithTimeout returns the zero value and the deadline-exceeded error,
\* whatever the operation produces later.
C7_TimeoutBeforeCompletion ==
    (tpc = "done" /\ Before("timeout", "fnret")) =>
        tret = Pair(zero, Err(DeadlineExceeded))

\* ------------------------------------------------------------------------ C8
\* C8: if the operation's result is delivered before the derived context
\* expires or is cancelled, WithTimeout returns the operation's outcome and
\* not the context's error.
C8_FirstEventDecides ==
    (tpc = "done" /\ Before("send", "timeout") /\ Before("send", "parent")) =>
        /\ tcase = "result"
        /\ tret.err = wout.err

\* ------------------------------------------------------------------------ C9
\* C9 as stated: when the operation completes first (the select receives its
\* result), WithTimeout returns the operation's (value, failure) pair as it is.
C9_PairAsIs ==
    (tpc = "done" /\ tcase = "result") => tret = wout

\* C9 amended: the failure is the operation's in both cases; the value is the
\* operation's on success and the zero value on failure.
C9_PairValueZeroedOnFailure ==
    (tpc = "done" /\ tcase = "result") =>
        /\ tret.err = wout.err
        /\ wout.err = Nil => tret.value = wout.value
        /\ wout.err # Nil => tret.value = zero

\* WithTimeout returned the failure of an operation that also returned a
\* non-zero value.
C9_Witness ==
    /\ tpc = "done" /\ tcase = "result"
    /\ wout.err \in OpErrors /\ wout.value # zero

\* ----------------------------------------------------------------------- C10
\* C10: called with a parent context that is already cancelled, WithTimeout
\* returns the zero value and context.Canceled, whatever the operation
\* returns and however quickly.
C10_CancelledParent ==
    (tpc = "done" /\ tparent0 = Canceled) => tret = Pair(zero, Err(Canceled))

\* ----------------------------------------------------------------------- C11
\* The number of times event ev has happened.
Count(ev) == Cardinality({i \in 1..Len(thist) : thist[i] = ev})

\* C11: the worker delivers exactly once into a channel that holds one
\* result, so once the operation has returned the delivery can always take
\* place at once, also after the caller has returned; and a call has exactly
\* one outcome: once WithTimeout has returned, what it returned never changes.
C11_OneDeliveryOneOutcome ==
    /\ [](/\ Len(resultCh) <= 1
          /\ Count("fnret") <= 1 /\ Count("send") <= 1
          /\ wpc = "send" => (Count("send") = 0 /\ ENABLED WorkerSend)
          /\ wpc = "done" => Count("send") = 1
          /\ tpc = "done" <=> tret # NotReturned
          /\ tpc = "done" <=> tcase # "none")
    /\ [][tpc = "done" => (tpc' = "done" /\ tret' = tret /\ tcase' = tcase)]_vars

\* The worker has delivered its result into the channel and finished, the
\* caller having returned the context's error on a timeout that came before
\* the operation returned.
C11_Witness ==
    /\ tpc = "done" /\ tcase = "ctx" /\ Before("timeout", "fnret")
    /\ wpc = "done" /\ Len(resultCh) = 1

\* ----------------------------------------------------------------------- C12
\* C12: once the parent context has ended or the derived context has
\* finished (the timeout has elapsed), WithTimeout returns, and every call
\* returns in the end, also when the operation never returns.
C12_CallerAlwaysReturns ==
    /\ (tparent # NoErr \/ tctx # NoErr) ~> (tpc = "done")
    /\ <>(tpc = "done")

\* WithTimeout has returned the deadline error while the operation is still
\* running.
C12_Witness ==
    /\ tpc = "done" /\ wpc = "fn"
    /\ tret = Pair(zero, Err(DeadlineExceeded))

\* ----------------------------------------------------------------------- C13
\* C13: every return of Acquire is one of two: nil, with exactly one slot
\* taken (one more element in the channel, one more acquisition outstanding),
\* or the error of its context, Canceled or DeadlineExceeded as the context
\* ended, with the channel and the outstanding count unchanged.
C13_AcquireTwoOutcomes ==
    [][\A p \in Procs :
        (spc[p] = "acquire" /\ spc'[p] # "acquire") =>
            /\ spc'[p] = "idle"
            /\ \/ /\ sres'[p] = "nil"
                  /\ held'[p] = held[p] + 1
                  /\ buf' = buf + 1
                  /\ Outstanding' = Outstanding + 1
               \/ /\ sres'[p] \in CtxErrs /\ sres'[p] = sctx[p]
                  /\ held' = held
                  /\ buf' = buf
                  /\ Outstanding' = Outstanding]_vars

\* One Acquire has returned DeadlineExceeded and another Canceled, neither
\* holding a slot, while a third goroutine holds the only slot, which it got
\* from an Acquire that returned nil.
C13_Witness ==
    \E p, q, r \in Procs :
        /\ cap = 1 /\ buf = 1
        /\ spc[p] = "idle" /\ sres[p] = DeadlineExceeded /\ held[p] = 0
        /\ spc[q] = "idle" /\ sres[q] = Canceled /\ held[q] = 0
        /\ spc[r] = "idle" /\ sres[r] = "nil" /\ held[r] = 1

\* ----------------------------------------------------------------------- C14
\* C14: an Acquire whose context was already finished when it was called
\* returns that context's error and acquires nothing, whether or not the
\* channel has room.
C14_CancelledNeverAcquires ==
    [][\A p \in Procs :
        (spc[p] = "acquire" /\ sctx0[p] # NoErr /\ spc'[p] # "acquire") =>
            /\ sres'[p] = sctx0[p]
            /\ held' = held
            /\ buf' = buf]_vars

\* ----------------------------------------------------------------------- C15
\* Goroutine p, outside any call before and after the step, has made a call
\* in it: a TryAcquire, the one call that returns within a single step.
TryAcquireStep(p) ==
    /\ spc[p] = "idle" /\ spc'[p] = "idle"
    /\ sres'[p] # sres[p] \/ held'[p] # held[p]

C16_ReleaseFreesOneSlot ==
    /\ [](\A p \in Procs : spc[p] = "release" => ENABLED ReleaseRecv(p))
    /\ [][\A p \in Procs :
            (spc[p] = "release" /\ spc'[p] # "release") =>
                /\ spc'[p] = "idle"
                /\ held'[p] = held[p] - 1
                /\ Outstanding' = Outstanding - 1
                /\ buf' = buf - 1
                /\ CanSend']_vars

\* On New(1) a TryAcquire was refused because the slot was taken, the slot
\* has been released since, and an Acquire is waiting with the send ready.
C16_Witness ==
    \E p, q, r \in Procs :
        /\ cap = 1 /\ buf = 0 /\ Outstanding = 0
        /\ spc[p] = "idle" /\ sres[p] = "none"
        /\ spc[q] = "idle" /\ sres[q] = "false"
        /\ spc[r] = "acquire" /\ ENABLED AcquireSend(r)

\* ----------------------------------------------------------------------- C17
\* Goroutine q puts an element into the channel in this step: its Acquire or
\* TryAcquire succeeds, or its Wait takes one more slot.
Sends(q) == held'[q] = held[q] + 1 \/ widx'[q] = widx[q] + 1

\* C17: a Release that finds no slot taken (the channel is empty) cannot
\* return by itself, and the only step in which it returns is one in which
\* another goroutine takes a slot and hands its element over to it.
C17_UnmatchedReleaseBlocks ==
    /\ [](\A p \in Procs :
            (spc[p] = "release" /\ buf = 0) => ~ENABLED ReleaseRecv(p))
    /\ [][\A p \in Procs :
            (spc[p] = "release" /\ buf = 0 /\ spc'[p] # "release") =>
                \E q \in Procs \ {p} : Sends(q)]_vars

\* On New(0), where no slot exists, a TryAcquire has returned true: it handed
\* its element to a blocked Release, which returned; a second Release, with
\* nobody acquiring, is still blocked.
C17_Witness ==
    \E p, q, r \in Procs :
        /\ cap = 0
        /\ spc[q] = "idle" /\ sres[q] = "true"
        /\ spc[p] = "idle" /\ sres[p] = "none" /\ p # q
        /\ spc[r] = "release"

\* ----------------------------------------------------------------------- C18
\* C18: in the step in which a Wait returns no acquisition is outstanding:
\* every goroutine has released what it acquired, and all cap slots are
\* taken by the drain - whatever Acquire, TryAcquire, Release and other Wait
\* calls ran beside it.
C18_WaitReturnsWhenDrained ==
    [][\A p \in Procs :
        (spc[p] = "wait" /\ spc'[p] # "wait") =>
            /\ Outstanding = 0 /\ Outstanding' = 0
            /\ \A q \in Procs : held[q] = 0 /\ spc[q] # "release"
            /\ buf = cap]_vars

\* A Wait on New(2) has returned, all slots drained, after a TryAcquire had
\* been refused and with an Acquire of another goroutine still waiting.
C18_Witness ==
    \E p, q, r \in Procs :
        /\ cap = 2 /\ buf = 2 /\ Outstanding = 0
        /\ \A x \in Procs : spc[x] # "wait"
        /\ spc[p] = "idle" /\ sres[p] = "none"
        /\ spc[q] = "idle" /\ sres[q] = "false"
        /\ spc[r] = "acquire"

\* ----------------------------------------------------------------------- C19
\* Nothing is outstanding and no Acquire is in progress.
AllReleased == Outstanding = 0 /\ \A q \in Procs : spc[q] # "acquire"

C20_BlockingWaitsEndOnCancel ==
    /\ \A p \in Procs :
        (spc[p] \in {"acquire", "wait"} /\ sctx[p] # NoErr) ~> (spc[p] = "idle")
    /\ (rpc = "wait" /\ rctx # NoErr) ~> (rpc # "wait")

\* ----------------------------------------------------------------------- C21
\* C21: WithRetry never panics: for every strategy, every duration the
\* Delayer returns and every outcome of the operation, it is running or it
\* has returned a (value, error) pair.
C21_NeverPanics ==
    /\ rpc # "panic"
    /\ RetryOver => (rpc = "done" /\ rret # NotReturned)

\* ----------------------------------------------------------------------- C22
\* InitialDelay x Coefficient^attempt, as a fraction.
Power(e, att) == Mul(Float(e.InitialDelay, 1), Pow(e.Coefficient, att))

\* min(MaxDelay, InitialDelay x Coefficient^attempt), in whole nanoseconds.
CappedPower(e, att) ==
    IF Power(e, att)[1] > e.MaxDelay * Power(e, att)[2] THEN e.MaxDelay
    ELSE Trunc(Power(e, att))

\* C22: under the preconditions Coefficient > 0 and InitialDelay < MaxDelay,
\* Delay(0) is 0 and Delay(n) for n >= 1 is min(MaxDelay, InitialDelay x
\* Coefficient^n), which is at most MaxDelay.
C22_DelayIsCappedPower ==
    (dlast.fn = "Delay" /\ eb.Coefficient[1] > 0 /\ eb.InitialDelay < eb.MaxDelay) =>
        /\ dlast.attempt = 0 => dlast.out = 0
        /\ dlast.attempt >= 1 => dlast.out = CappedPower(eb, dlast.attempt)
        /\ dlast.out <= eb.MaxDelay

\* ----------------------------------------------------------------------- C23
\* Half of d, as "d/2" computes it.
Half(d) == Trunc(Float(d, 2))

\* C23: for every attempt, base delay d >= 0 and draw r in [0, 1), FullJitter
\* returns r x d (in whole nanoseconds), within [0, d], and EqualJitter returns
\* d/2 + r x (d/2), within [d/2, d]; with r = 0.5 and d a multiple of four
\* units they return exactly d/2 and 3d/4 (500ms and 750ms for d = 1s).
C23_JitterRanges ==
    /\ (dlast.fn = "FullJitter" /\ dlast.d >= 0) =>
          /\ dlast.out = Trunc(Mul(dlast.r, Float(dlast.d, 1)))
          /\ 0 <= dlast.out /\ dlast.out <= dlast.d
          /\ (2 * dlast.r[1] = dlast.r[2] /\ dlast.d % 4 = 0) => 2 * dlast.out = dlast.d
    /\ (dlast.fn = "EqualJitter" /\ dlast.d >= 0) =>
          /\ dlast.out = Half(dlast.d) + Trunc(Mul(dlast.r, Float(Half(dlast.d), 1)))
          /\ Half(dlast.d) <= dlast.out /\ dlast.out <= dlast.d
          /\ (2 * dlast.r[1] = dlast.r[2] /\ dlast.d % 4 = 0) => 4 * dlast.out = 3 * dlast.d

\* EqualJitter with r = 0.5 on a positive delay d returned 3d/4, above d/2 and
\* below d.
C23_Witness ==
    /\ dlast.fn = "EqualJitter" /\ 2 * dlast.r[1] = dlast.r[2]
    /\ dlast.d > 0 /\ dlast.d % 4 = 0
    /\ 4 * dlast.out = 3 * dlast.d

\* ----------------------------------------------------------------------- C24
\* C24: for base <= cap and every scale > 0 (a scale <= 0 having been replaced
\* by the default), every delay a DecorrelatedJitter delayer returns, on every
\* call of every sequence of calls and for every draw, is at least base and at
\* most cap.
C24_DelayWithinBaseAndCap ==
    (dlast.fn = "DecorrelatedJitter" /\ dj.base <= dj.cap) =>
        (dj.base <= dlast.out /\ dlast.out <= dj.cap)

\* ----------------------------------------------------------------------- C25
\* C25: the state DecorrelatedJitter carries is clamped: after any sequence of
\* calls the stored sleep equals the delay last returned and never exceeds cap.
C25_SleepIsClamped ==
    dlast.fn = "DecorrelatedJitter" => (dj.sleep = dlast.out /\ dj.sleep <= dj.cap)

\* ----------------------------------------------------------------------- C26
\* Invocations of the operation started so far.
Started ==
    IF rs.ShouldRetry = NilFunc THEN (IF rpc \in {"fn", "done"} THEN 1 ELSE 0)
    ELSE attempt

\* Invocations of the operation in progress: started and not yet returned.
InProgress == Started - Len(outs)

\* C26: within one WithRetry call attempts are strictly sequential.  At most
\* one invocation of the operation is in progress, and none is while the delay
\* is waited; an attempt is started only when every earlier attempt has
\* returned, it is the next one in number, and after a positive delay it is
\* started by the ticker alone.
C26_AttemptsSequential ==
    /\ [](/\ InProgress \in {0, 1}
          /\ InProgress = 1 <=> rpc = "fn"
          /\ rpc = "wait" => (attempt >= 1 /\ Len(outs) = attempt))
    /\ [][/\ attempt' # attempt =>
               (attempt' = attempt + 1 /\ Len(outs') = attempt /\ rpc' = "fn")
          /\ (rpc = "wait" /\ rpc' = "fn") => (attempt' = attempt + 1 /\ outs' = outs)
          /\ (rpc = "wait" /\ rpc' # "wait") => (outs' = outs /\ InProgress = 0)]_vars

\* The second attempt is in progress after the first has returned and its
\* delay has been taken from the Delayer.
C26_Witness ==
    rpc = "fn" /\ attempt = 2 /\ Len(outs) = 1 /\ dcalls = <<1>>

\* ----------------------------------------------------------------------- C27
\* This step is the return of a failed, retryable, non-final attempt.
RetriedFailure ==
    /\ rpc = "fn" /\ rs.ShouldRetry # NilFunc
    /\ Len(outs') = Len(outs) + 1
    /\ outs'[Len(outs')].err # Nil
    /\ rs.ShouldRetry[outs'[Len(outs')].err]
    /\ ~LimitReached

\* This step returns the error of the context and starts no attempt.
ReturnsCtxErr ==
    /\ rpc' = "done" /\ rret' = Pair(zero, Err(rctx))
    /\ attempt' = attempt /\ Len(outs') \in {Len(outs), attempt}

\* C27: after a failed, retryable, non-final attempt WithRetry observes
\* cancellation before the next attempt.  With a zero delay (the step neither
\* creates a ticker nor panics) and the context finished it returns the
\* context's error without another attempt; with a positive delay, when the
\* context was already finished as the wait began (cancellation came first),
\* the wait ends by returning the context's error and the operation is never
\* invoked again.
C27_CancellationBeforeNextAttempt ==
    [][/\ (RetriedFailure /\ rpc' \notin {"wait", "panic"} /\ rctx # NoErr) => ReturnsCtxErr
       /\ (rpc = "wait" /\ wctx # NoErr /\ rpc' # "wait") => ReturnsCtxErr]_vars

\* ----------------------------------------------------------------------- C28
\* The last invocation of the operation failed and the predicate declined it.
LastDeclined ==
    /\ Len(outs) > 0 /\ outs[Len(outs)].err # Nil
    /\ ~rs.ShouldRetry[outs[Len(outs)].err]

\* WithRetry returned on success, on a declined retry or on cancellation.
EndedAsDocumented ==
    /\ rpc = "done"
    /\ \/ rret.err = Nil /\ Len(outs) > 0 /\ outs[Len(outs)] = rret
       \/ LastDeclined /\ rret = Pair(zero, outs[Len(outs)].err)
       \/ rctx # NoErr /\ rret = Pair(zero, Err(rctx))

\* C28: with a configured predicate and MaximumAttempts = k > 0, in every
\* execution the operation is invoked at most k times, WithRetry ends by
\* returning, and a RetryExhaustedError it returns carries Attempt = k; with
\* MaximumAttempts = 0 WithRetry ends only on success, on a declined retry or
\* on cancellation.
C28_BoundedAttempts ==
    /\ (rs.ShouldRetry # NilFunc /\ rs.MaximumAttempts > 0) =>
          /\ attempt <= rs.MaximumAttempts /\ Len(outs) <= rs.MaximumAttempts
          /\ RetryOver => rpc = "done"
          /\ (rpc = "done" /\ rret.err.type = "RetryExhaustedError") =>
                 (rret.err.Attempt = rs.MaximumAttempts /\ Len(outs) = rs.MaximumAttempts)
    /\ (rs.ShouldRetry # NilFunc /\ rs.MaximumAttempts = 0 /\ RetryOver) => EndedAsDocumented

\* ----------------------------------------------------------------------- C30
\* C30: WithRetry calls the Delayer exactly once in the step that ends a failed
\* attempt that is going to be retried, with the 1-based number of that
\* attempt, and in no other step.  The arguments over one call are 1, 2, 3, ...
\* in order, never 0; each belongs to an attempt that failed, that the
\* predicate accepted and that was not the attempt numbered MaximumAttempts.
C30_DelayerOncePerRetry ==
    /\ [](\A i \in 1..Len(dcalls) :
             /\ dcalls[i] = i
             /\ i <= Len(outs) /\ outs[i].err # Nil /\ rs.ShouldRetry[outs[i].err]
             /\ rs.MaximumAttempts # 0 => i < rs.MaximumAttempts)
    /\ [][IF RetriedFailure /\ rs.Delayer # NilFunc
          THEN dcalls' = Append(dcalls, attempt) /\ attempt = Len(outs')
          ELSE dcalls' = dcalls]_vars

\* The Delayer has been called after the first and after the second attempt,
\* and the third attempt has returned.
C30_Witness ==
    dcalls = <<1, 2>> /\ Len(outs) = 3 /\ rpc = "done"

\* ----------------------------------------------------------------------- C29
\* A Wait has returned on a semaphore of capacity > 0: the channel is full of
\* the elements Wait sent, nothing is outstanding, no loop of Wait has sent.
Drained ==
    /\ cap > 0 /\ buf = cap
    /\ \A p \in Procs : widx[p] = 0 /\ held[p] = 0

\* Two or more Wait calls have each sent a part of the elements that fill the
\* channel, and nothing is outstanding.
WaitsBlocked ==
    /\ buf = cap /\ Outstanding = 0
    /\ \E p, q \in Procs : p # q /\ spc[p] = "wait" /\ widx[p] > 0 /\ spc[q] = "wait" /\ widx[q] > 0

\* C29: on a semaphore of capacity > 0, with every Release following an
\* acquisition: the step in which a Wait returns leaves the semaphore full
\* with nothing outstanding, and from then on it stays so for ever: no send
\* can proceed, no Release is called, every TryAcquire returns false, every
\* Acquire that returns returns its context's error, no further Wait returns
\* (so at most one Wait ever returns).  Two concurrent Wait calls that have
\* filled the channel between them stay blocked for ever.
C29_FullAfterWait ==
    /\ [](Drained => ~CanSend)
    /\ [][(cap > 0 /\ \E p \in Procs : spc[p] = "wait" /\ spc'[p] = "idle") => Drained']_vars
    /\ [][Drained =>
            /\ Drained' /\ held' = held
            /\ \A p \in Procs :
                 /\ spc'[p] # "release"
                 /\ spc[p] = "wait" => spc'[p] = "wait"
                 /\ (spc[p] = "acquire" /\ spc'[p] = "idle") =>
                        (sctx[p] \in CtxErrs /\ sres'[p] = sctx[p])
                 /\ (spc[p] = "idle" /\ spc'[p] = "idle" /\ sres'[p] # sres[p]) =>
                        sres'[p] = "false"]_vars
    /\ [][WaitsBlocked =>
            /\ WaitsBlocked' /\ buf' = buf /\ widx' = widx
            /\ \A p \in Procs : spc[p] = "wait" => spc'[p] = "wait"]_vars

\* After a Wait has returned, one goroutine's TryAcquire has returned false,
\* another's Acquire has returned its context's error and a third is inside a
\* further Wait.
C29_Witness ==
    /\ Drained
    /\ \E p, q, r \in Procs :
          /\ spc[p] = "idle" /\ sres[p] = "false"
          /\ spc[q] = "idle" /\ sres[q] \in CtxErrs
          /\ spc[r] = "wait"

====
